---- MODULE Spec2Model ----
(***************************************************************************)
(* Descriptor-anchored source accessors of libutil (unix):                 *)
(*   UnixSourceAccessorBase, UnixFileSourceAccessor,                       *)
(*   UnixDirectorySourceAccessor   (unix-source-accessor.hh)               *)
(*   makeFSSourceAccessor          (unix-source-accessor.cc)               *)
(* One action per system call of an operation, together with the local     *)
(* computation that follows it up to the next system call, so that an      *)
(* external process changing the tree interleaves between system calls.    *)
(***************************************************************************)
EXTENDS Integers, Sequences, FiniteSets, TLC

\* ------------------------------------------------------------------ bounds
\* Longest requested path, in components.
MaxDepth == 3

\* ------------------------------------------------------------- file system
Nil == "nil"
Names == {"a", "b"}

\* Inodes.  R is the directory the anchor descriptor refers to, D a directory
\* that can be an entry of R and E one that can be an entry of D, F a regular
\* file, L a symlink whose target is O, a directory outside the root that
\* exists and is accessible and holds the file S.  The entries of R and D
\* change; E holds the file F under the name a and nothing else.
Anchor == "R"
InsideDirs == {"R", "D"}
OutsideInodes == {"O", "S"}
Inodes == {"R", "D", "E", "F", "L", "O", "S"}

Kind(i) ==
    CASE i \in {"R", "D", "E", "O"} -> "tDirectory"
      [] i \in {"F", "S"} -> "tRegular"
      [] i = "L" -> "tSymlink"
      [] OTHER -> "none"

\* What following the symlink i leads to.
Target(i) == IF i = "L" THEN "O" ELSE Nil

\* st_mtime of an inode.
MTime(i) ==
    CASE i = "R" -> 1
      [] i \in {"D", "E"} -> 2
      [] i = "F" -> 3
      [] i = "L" -> 4
      [] OTHER -> 5

Max(x, y) == IF x >= y THEN x ELSE y

EntryValues(d) ==
    CASE d = "R" -> {Nil, "D", "F", "L"}
      [] OTHER -> {Nil, "E", "F", "L"}

\* A directory has one parent entry at most.
WellFormed(e) ==
    /\ ~(e["R"]["a"] = "D" /\ e["R"]["b"] = "D")
    /\ ~(e["D"]["a"] = "E" /\ e["D"]["b"] = "E")

Trees ==
    {e \in [InsideDirs -> [Names -> {Nil, "D", "E", "F", "L"}]] :
        /\ \A d \in InsideDirs : \A n \in Names : e[d][n] \in EntryValues(d)
        /\ WellFormed(e)}

Paths == UNION {[1..n -> Names] : n \in 0..MaxDepth}

isRoot(p) == Len(p) = 0
parent(p) == SubSeq(p, 1, Len(p) - 1)
baseName(p) == p[Len(p)]
IsProperPrefix(q, p) == Len(q) < Len(p) /\ SubSeq(p, 1, Len(q)) = q

VARIABLES
    ent,                \* directory inode -> name -> inode or Nil
    op, path, pc,       \* the operation in progress, its argument, its position
    idx,                \* next component openFileEnsureBeneathNoSymlinks opens
    cur,                \* inode of the descriptor the next system call is relative to
    owned,              \* the call's local descriptor owners that hold an open descriptor
    leaked,             \* descriptors open with no owner
    opened,             \* descriptors opened so far by the call
    res,                \* what the call returned or threw
    errno,
    followed,           \* some system call of the call followed a symlink
    stable,             \* no external change since the call began
    faulted,            \* some system call of the call failed for lack of permission or I/O
    anchorOpen,         \* AutoCloseFD fd of the accessor
    trackLastModified, mtime,
    seenMax             \* largest st_mtime among the entries statted or read so far

dirVars == <<ent, op, path, pc, idx, cur, owned, leaked, opened, res, errno,
             followed, stable, faulted, anchorOpen, trackLastModified, mtime, seenMax>>

\* UnixFileSourceAccessor shared by threads
VARIABLES
    fsize,              \* st_size of the open file now (another process may change it)
    filePos,            \* the file position the descriptor shares among its users
    statFlag,           \* std::once_flag: "clear", "running" (a callable is active), "set"
    cachedStat,         \* unset, partial (fstat is writing it) or the full record
    prefetched,         \* the constructor was given st
    fstatCalls,         \* fstat calls issued by maybeLstat so far
    fstatFailed,        \* those that failed
    returned,           \* the records maybeLstat has returned so far
    interrupted,        \* what checkInterrupt() tests
    tpc, top, troot,    \* per thread: position, operation, whether the path is the root
    left, offset,       \* per thread: readFile's locals
    events,             \* per thread: the sizeCallback and sink calls made, in order
    tres                \* per thread: what the call returned or threw

fileVars == <<fsize, filePos, statFlag, cachedStat, prefetched, fstatCalls, fstatFailed,
              returned, interrupted, tpc, top, troot, left, offset, events, tres>>

\* makeFSSourceAccessor
VARIABLES
    mkArg,              \* the root argument: "empty", "slash" or "path"
    mkPc,               \* position in makeFSSourceAccessor
    rootEnt,            \* what the last component of rootPath is now
    parentOk,           \* whether the parent directory can be opened now
    mkFd,               \* the kind of the inode fd refers to, once opened
    mkRes,              \* the accessor returned, or the error thrown
    mkStable,           \* no external change since makeFSSourceAccessor was called
    mkFaulted,          \* some system call of it failed for lack of permission or I/O
    mkFollowed,         \* some open of it followed the symlink rootPath names
    mkUse               \* the last operation on the accessor returned and its result

mkVars == <<mkArg, mkPc, rootEnt, parentOk, mkFd, mkRes, mkStable, mkFaulted,
            mkFollowed, mkUse>>

\* readDirectory of the root called by several threads
VARIABLES
    stream,             \* the dirents readdir yields for the root directory, in order
    dpos,               \* directory offset of each open file description: 0 is the
                        \* anchor's, t that of the descriptor thread t opened
    lpc,                \* per thread: position in readDirectory
    ldirent,            \* per thread: the dirent the last readdir returned
    lentries,           \* per thread: DirEntries entries
    lowned,             \* per thread: the local owners that hold an open descriptor
    lres,               \* per thread: what the call returned or threw
    lsys                \* per thread: the system calls the call has made, in order

listVars == <<stream, dpos, lpc, ldirent, lentries, lowned, lres, lsys>>

\* a caller that asks for the status of a path and then reads it
VARIABLES
    prev                \* the caller's previous call: operation, path, outcome

pairVars == <<prev>>

vars == <<dirVars, fileVars, mkVars, listVars, pairVars>>

Res(k, p, i) == [kind |-> k, path |-> p, ino |-> i]
NoRes == Res("none", <<>>, Nil)

\* ------------------------------------------------------------ system calls
Child(d, n) ==
    IF d \in InsideDirs THEN ent[d][n]
    ELSE IF d = "E" /\ n = "a" THEN "F"
    ELSE IF d = "O" /\ n = "a" THEN "S"
    ELSE Nil

\* What a name resolves to: the entry itself under O_NOFOLLOW /
\* AT_SYMLINK_NOFOLLOW, else the target of a symlink.
Resolve(d, n, nofollow) ==
    LET e == Child(d, n) IN
    IF e # Nil /\ Kind(e) = "tSymlink" /\ ~nofollow THEN Target(e) ELSE e

Via(d, n, nofollow) ==
    LET e == Child(d, n) IN e # Nil /\ Kind(e) = "tSymlink" /\ ~nofollow

\* openat(d, n, flags): odir is O_DIRECTORY, nofollow is O_NOFOLLOW.  With both
\* set, a symlink gives ELOOP or ENOTDIR depending on the platform (eloop).
\* fault is a failure of the call for lack of permission or an I/O error.
Openat(d, n, odir, nofollow, eloop, fault) ==
    LET t == Resolve(d, n, nofollow) IN
    IF fault THEN [fd |-> Nil, errno |-> "EACCES"]
    ELSE IF t = Nil THEN [fd |-> Nil, errno |-> "ENOENT"]
    ELSE IF Kind(t) = "tSymlink"
        THEN [fd |-> Nil, errno |-> IF odir /\ ~eloop THEN "ENOTDIR" ELSE "ELOOP"]
    ELSE IF odir /\ Kind(t) # "tDirectory" THEN [fd |-> Nil, errno |-> "ENOTDIR"]
    ELSE [fd |-> t, errno |-> "none"]

\* fstatat(d, n, &st, flags)
Fstatat(d, n, nofollow, fault) ==
    LET t == Resolve(d, n, nofollow) IN
    IF fault THEN [ino |-> Nil, errno |-> "EACCES"]
    ELSE IF t = Nil THEN [ino |-> Nil, errno |-> "ENOENT"]
    ELSE [ino |-> t, errno |-> "none"]


\* ------------------------------------------------- UnixSourceAccessorBase
\* updateMtime that stores the new time instead of the larger one.
updateMtimeAssign(m, newMtime) == IF trackLastModified THEN newMtime ELSE m

updateMtime(m, newMtime) == IF trackLastModified THEN Max(m, newMtime) ELSE m

getLastModified == IF trackLastModified THEN mtime ELSE Nil

\* -------------------------------------------- UnixDirectorySourceAccessor
Ops == {"stat", "read", "list", "link"}

\* The catch re-raising with the requested path instead of e.path.
catchWithRequestedPath(ePath, p) == Res("SymlinkNotAllowed", p, Nil)

\* catch (SymlinkNotAllowed & e) { throw SymlinkNotAllowed(e.path, ...) } of the
\* public operations: what is raised to the caller for a requested path p.
catchSymlinkNotAllowed(ePath, p) == Res("SymlinkNotAllowed", ePath, Nil)

\* openParent checking ELOOP only.
openParentThrowsEloopOnly(e) == e = "ELOOP"

\* openParent: the errno values of a failed open of the parent that make it
\* throw SymlinkNotAllowed(parent).
openParentThrows(e) == e \in {"ELOOP", "ENOTDIR"}

\* fstatat without AT_SYMLINK_NOFOLLOW.
lstatFollows == FALSE

\* AT_SYMLINK_NOFOLLOW of maybeLstat's fstatat.
lstatNoFollow == TRUE

\* O_NOFOLLOW among the flags readFile opens the file with.
readFileNoFollow == TRUE

\* The path openFileEnsureBeneathNoSymlinks is given: the parent for the
\* operations that go through openParent, the path itself for the others.
WalkTarget(o, p) == IF o \in {"stat", "link"} THEN parent(p) ELSE p

\* O_DIRECTORY among the flags of the final open.
ODirectory(o) == o \in {"stat", "link", "list"}

\* The local AutoCloseFD that receives the descriptor the walk returns.
OwnerOf(o) ==
    CASE o \in {"stat", "link"} -> "parentFdOwning"
      [] o = "read" -> "fileFd"
      [] OTHER -> "dirFdOwning"

\* Where an operation goes once the descriptor it asked for is open.
AfterOpen(o) ==
    CASE o = "stat" -> "fstatat"
      [] o = "link" -> "readlinkat"
      [] o = "read" -> "fileFstat"
      [] OTHER -> "fdopendir"

\* What maybeLstat and readLink do with a parent that could not be opened.
openParentFailed(o, e, p) ==
    IF openParentThrows(e) THEN catchSymlinkNotAllowed(parent(p), p)
    ELSE IF o = "stat" THEN Res("absent", <<>>, Nil)
    ELSE Res("FileNotFound", p, Nil)

\* readFile without the ENOENT / ENOTDIR branch.
readFileOpenErrorNoEnoent(e, p) ==
    IF e = "ELOOP" THEN Res("NotARegularFile", p, Nil)
    ELSE Res("SysError", p, Nil)

\* readFile: !fileFd
readFileOpenError(e, p) ==
    IF e = "ELOOP" THEN Res("NotARegularFile", p, Nil)
    ELSE IF e \in {"ENOENT", "ENOTDIR"} THEN Res("FileNotFound", p, Nil)
    ELSE Res("SysError", p, Nil)

\* readLink letting every SysError of readLinkAt through.
readLinkErrorRethrown(e, p) == Res("SysError", p, Nil)

\* readLink: catch (SysError & e) around readLinkAt
readLinkError(e, p) ==
    IF e = "EINVAL" THEN Res("NotASymlink", p, Nil)
    ELSE Res("SysError", p, Nil)

\* readDirectory: !dirFdOwning
readDirectoryOpenError(e, p) ==
    IF e = "ENOTDIR" THEN Res("NotADirectory", p, Nil)
    ELSE Res("SysError", p, Nil)

OpenFailed(o, e, p) ==
    CASE o \in {"stat", "link"} -> openParentFailed(o, e, p)
      [] o = "read" -> readFileOpenError(e, p)
      [] OTHER -> readDirectoryOpenError(e, p)

\* The first system call of an operation, or "done" when it throws before any.
EntryPc(o, p) ==
    CASE o = "stat" -> IF isRoot(p) THEN "fstat"
                       ELSE IF isRoot(parent(p)) THEN "fstatat" ELSE "walk"
      [] o = "link" -> IF isRoot(p) THEN "done"
                       ELSE IF isRoot(parent(p)) THEN "readlinkat" ELSE "walk"
      [] o = "read" -> IF isRoot(p) THEN "done" ELSE "walk"
      [] OTHER -> IF isRoot(p) THEN "opendot" ELSE "walk"

EntryRes(o, p) ==
    IF EntryPc(o, p) # "done" THEN NoRes
    ELSE IF o = "read" THEN Res("NotARegularFile", p, Nil)
    ELSE Res("NotASymlink", p, Nil)

\* A public operation is called.
Call(o, p) ==
    /\ pc = "idle" /\ anchorOpen
    /\ op' = o /\ path' = p
    /\ pc' = EntryPc(o, p) /\ res' = EntryRes(o, p)
    /\ idx' = 1 /\ cur' = Anchor
    /\ owned' = {} /\ leaked' = 0 /\ opened' = 0
    /\ errno' = "none" /\ followed' = FALSE /\ stable' = TRUE /\ faulted' = FALSE
    /\ UNCHANGED <<ent, anchorOpen, trackLastModified, mtime, seenMax>>
    /\ UNCHANGED <<fileVars, mkVars, listVars, pairVars>>

\* The call ends: every local owner is destroyed and closes its descriptor.
Finish(r) ==
    /\ pc' = "done" /\ res' = r /\ owned' = {}

\* openFileEnsureBeneathNoSymlinks, a component before the last: opened from
\* the descriptor reached so far as a directory, without following a symlink.
\* A symlink there is the SymlinkNotAllowed condition carrying the sub-path.
WalkStep ==
    /\ pc = "walk" /\ idx < Len(WalkTarget(op, path))
    /\ \E fault \in BOOLEAN, eloop \in BOOLEAN :
        LET t == WalkTarget(op, path)
            c == Child(cur, t[idx])
            r == Openat(cur, t[idx], TRUE, TRUE, eloop, fault)
        IN /\ faulted' = (faulted \/ fault)
           /\ errno' = r.errno
           /\ IF r.fd # Nil
                THEN /\ cur' = r.fd /\ idx' = idx + 1
                     /\ owned' = {"walkFd"} /\ opened' = opened + 1
                     /\ UNCHANGED <<pc, res>>
              ELSE IF ~fault /\ c # Nil /\ Kind(c) = "tSymlink"
                THEN /\ Finish(catchSymlinkNotAllowed(SubSeq(t, 1, idx), path))
                     /\ UNCHANGED <<cur, idx, opened>>
              ELSE /\ Finish(OpenFailed(op, r.errno, path))
                   /\ UNCHANGED <<cur, idx, opened>>
    /\ UNCHANGED <<ent, op, path, leaked, followed, stable, anchorOpen,
                   trackLastModified, mtime, seenMax>>
    /\ UNCHANGED <<fileVars, mkVars, listVars, pairVars>>

\* openFileEnsureBeneathNoSymlinks, the last component: opened with the
\* caller's flags and O_NOFOLLOW; the caller then looks at the descriptor.
WalkFinal ==
    /\ pc = "walk" /\ idx = Len(WalkTarget(op, path))
    /\ \E fault \in BOOLEAN, eloop \in BOOLEAN :
        LET t == WalkTarget(op, path)
            nofollow == IF op = "read" THEN readFileNoFollow ELSE TRUE
            r == Openat(cur, t[idx], ODirectory(op), nofollow, eloop, fault)
        IN /\ faulted' = (faulted \/ fault)
           /\ errno' = r.errno
           /\ followed' = (followed \/ (~fault /\ Via(cur, t[idx], nofollow)))
           /\ IF r.fd # Nil
                THEN /\ cur' = r.fd /\ pc' = AfterOpen(op)
                     /\ owned' = {OwnerOf(op)} /\ opened' = opened + 1
                     /\ UNCHANGED <<res>>
              ELSE /\ Finish(OpenFailed(op, r.errno, path))
                   /\ UNCHANGED <<cur, opened>>
    /\ UNCHANGED <<ent, op, path, idx, leaked, stable, anchorOpen,
                   trackLastModified, mtime, seenMax>>
    /\ UNCHANGED <<fileVars, mkVars, listVars, pairVars>>

\* maybeLstat of the root: fstat(fd.get(), &st)
FstatRoot ==
    /\ pc = "fstat"
    /\ \E fault \in BOOLEAN :
        /\ faulted' = (faulted \/ fault)
        /\ errno' = IF fault THEN "EIO" ELSE "none"
        /\ IF fault
             THEN Finish(Res("absent", <<>>, Nil)) /\ UNCHANGED <<mtime, seenMax>>
           ELSE /\ Finish(Res("ok", path, Anchor))
                /\ mtime' = updateMtime(mtime, MTime(Anchor))
                /\ seenMax' = IF trackLastModified THEN Max(seenMax, MTime(Anchor)) ELSE seenMax
    /\ UNCHANGED <<ent, op, path, idx, cur, leaked, opened, followed, stable,
                   anchorOpen, trackLastModified>>
    /\ UNCHANGED <<fileVars, mkVars, listVars, pairVars>>

\* maybeLstat below the root: fstatat(parentFd, baseName, &st, AT_SYMLINK_NOFOLLOW)
FstatatLast ==
    /\ pc = "fstatat"
    /\ \E fault \in BOOLEAN :
        LET r == Fstatat(cur, baseName(path), lstatNoFollow, fault) IN
        /\ faulted' = (faulted \/ fault)
        /\ errno' = r.errno
        /\ followed' = (followed \/ (~fault /\ Via(cur, baseName(path), lstatNoFollow)))
        /\ IF r.ino = Nil
             THEN Finish(Res("absent", <<>>, Nil)) /\ UNCHANGED <<mtime, seenMax>>
           ELSE /\ Finish(Res("ok", path, r.ino))
                /\ mtime' = updateMtime(mtime, MTime(r.ino))
                /\ seenMax' = IF trackLastModified THEN Max(seenMax, MTime(r.ino)) ELSE seenMax
    /\ UNCHANGED <<ent, op, path, idx, cur, leaked, opened, stable,
                   anchorOpen, trackLastModified>>
    /\ UNCHANGED <<fileVars, mkVars, listVars, pairVars>>


\* readLink below the root: readLinkAt(parentFd, baseName), which throws
\* SysError; EINVAL (the entry is no symlink) becomes NotASymlink.
ReadlinkatLast ==
    /\ pc = "readlinkat"
    /\ \E fault \in BOOLEAN :
        LET c == Child(cur, baseName(path))
            e == IF fault THEN "EACCES"
                 ELSE IF c = Nil THEN "ENOENT"
                 ELSE IF Kind(c) # "tSymlink" THEN "EINVAL"
                 ELSE "none"
        IN /\ faulted' = (faulted \/ fault)
           /\ errno' = e
           /\ Finish(IF e = "none" THEN Res("ok", path, c) ELSE readLinkError(e, path))
    /\ UNCHANGED <<ent, op, path, idx, cur, leaked, opened, followed, stable,
                   anchorOpen, trackLastModified, mtime, seenMax>>
    /\ UNCHANGED <<fileVars, mkVars, listVars, pairVars>>

\* readDirectory of the root: openat(fd.get(), ".", O_DIRECTORY | O_RDONLY | O_CLOEXEC)
OpenDot ==
    /\ pc = "opendot"
    /\ \E fault \in BOOLEAN :
        /\ faulted' = (faulted \/ fault)
        /\ errno' = IF fault THEN "EACCES" ELSE "none"
        /\ IF fault
             THEN Finish(readDirectoryOpenError("EACCES", path)) /\ UNCHANGED opened
           ELSE /\ pc' = "fdopendir" /\ owned' = {"dirFdOwning"}
                /\ opened' = opened + 1 /\ UNCHANGED res
    /\ UNCHANGED <<ent, op, path, idx, cur, leaked, followed, stable,
                   anchorOpen, trackLastModified, mtime, seenMax>>
    /\ UNCHANGED <<fileVars, mkVars, listVars, pairVars>>

\* dirFdOwning.release() moved before the test of fdopendir's result: a failed
\* fdopendir leaves the descriptor with no owner.
releaseBeforeFdopendirTest(ok) ==
    IF ok THEN [owned |-> {"dir"}, leaked |-> 0]
    ELSE [owned |-> {}, leaked |-> 1]

\* AutoCloseDir dir(fdopendir(dirFdOwning.get())); on success the descriptor
\* passes from dirFdOwning to dir (dirFdOwning.release()).
releaseAfterFdopendir(ok) ==
    IF ok THEN [owned |-> {"dir"}, leaked |-> 0]
    ELSE [owned |-> {"dirFdOwning"}, leaked |-> 0]

Fdopendir ==
    /\ pc = "fdopendir"
    /\ \E fault \in BOOLEAN :
        LET o == releaseAfterFdopendir(~fault) IN
        /\ faulted' = (faulted \/ fault)
        /\ errno' = IF fault THEN "ENOMEM" ELSE "none"
        /\ leaked' = o.leaked
        /\ IF fault
             THEN /\ pc' = "done" /\ res' = Res("SysError", path, Nil)
                  /\ owned' = {}
           ELSE /\ pc' = "readdir" /\ owned' = o.owned /\ UNCHANGED res
    /\ UNCHANGED <<ent, op, path, idx, cur, opened, followed, stable,
                   anchorOpen, trackLastModified, mtime, seenMax>>
    /\ UNCHANGED <<fileVars, mkVars, listVars, pairVars>>

\* The readdir loop of readDirectory, as one step: the entries of the opened
\* directory, a read error, or an interruption seen by checkInterrupt().
ReaddirAll ==
    /\ pc = "readdir"
    /\ \E out \in {"ok", "SysError", "Interrupted"} :
        /\ faulted' = (faulted \/ out # "ok")
        /\ errno' = IF out = "SysError" THEN "EIO" ELSE "none"
        /\ Finish(IF out = "ok" THEN Res("ok", path, cur) ELSE Res(out, path, Nil))
    /\ UNCHANGED <<ent, op, path, idx, cur, leaked, opened, followed, stable,
                   anchorOpen, trackLastModified, mtime, seenMax>>
    /\ UNCHANGED <<fileVars, mkVars, listVars, pairVars>>

\* posixStatToAccessorStat: fileSize is present for a regular file only.
hasFileSize(i) == Kind(i) = "tRegular"

\* readFile: the nested UnixFileSourceAccessor's readFile(root) up to the size
\* announcement: fstat of the opened descriptor, then st.fileSize.value().
FileFstat ==
    /\ pc = "fileFstat"
    /\ \E fault \in BOOLEAN :
        /\ faulted' = (faulted \/ fault)
        /\ errno' = IF fault THEN "EIO" ELSE "none"
        /\ IF fault THEN Finish(Res("SysError", path, Nil))
           ELSE IF ~hasFileSize(cur) THEN Finish(Res("bad_optional_access", path, Nil))
           ELSE pc' = "fileBody" /\ UNCHANGED <<res, owned>>
    /\ UNCHANGED <<ent, op, path, idx, cur, leaked, opened, followed, stable,
                   anchorOpen, trackLastModified, mtime, seenMax>>
    /\ UNCHANGED <<fileVars, mkVars, listVars, pairVars>>

\* readFile: the nested accessor's pread loop as one step, then the fold of
\* the nested accessor's getLastModified() into mtime.
FileBody ==
    /\ pc = "fileBody"
    /\ \E out \in {"ok", "SysError", "Interrupted"} :
        /\ faulted' = (faulted \/ out # "ok")
        /\ errno' = IF out = "SysError" THEN "EIO" ELSE "none"
        /\ IF out = "ok"
             THEN /\ Finish(Res("ok", path, cur))
                  /\ mtime' = IF trackLastModified
                                THEN Max(mtime, updateMtime(0, MTime(cur))) ELSE mtime
                  /\ seenMax' = IF trackLastModified THEN Max(seenMax, MTime(cur)) ELSE seenMax
           ELSE Finish(Res(out, path, Nil)) /\ UNCHANGED <<mtime, seenMax>>
    /\ UNCHANGED <<ent, op, path, idx, cur, leaked, opened, followed, stable,
                   anchorOpen, trackLastModified>>
    /\ UNCHANGED <<fileVars, mkVars, listVars, pairVars>>

\* The caller has the result; the accessor is idle again.
ReturnBody ==
    /\ pc = "done"
    /\ pc' = "idle" /\ op' = "none" /\ path' = <<>> /\ res' = NoRes
    /\ idx' = 1 /\ cur' = Anchor /\ opened' = 0 /\ errno' = "none"
    /\ followed' = FALSE /\ stable' = TRUE /\ faulted' = FALSE
    /\ UNCHANGED <<ent, owned, leaked, anchorOpen, trackLastModified, mtime, seenMax>>
    /\ UNCHANGED <<fileVars, mkVars, listVars>>

Return == ReturnBody /\ UNCHANGED pairVars

NoPrev == [op |-> "none", path |-> <<>>, kind |-> "none", clean |-> TRUE]

\* The same, the caller keeping what it asked and what it got from statusOf
\* until it has read the path; clean says that no system call of the call
\* failed for lack of permission or an I/O error.
PairReturn ==
    /\ ReturnBody
    /\ prev' = IF op = "stat"
                THEN [op |-> op, path |-> path, kind |-> res.kind, clean |-> ~faulted]
              ELSE NoPrev

\* The caller asks for the status of a path below the root, then reads the
\* path whose status it has just asked for.
PairCall(o, p) ==
    /\ ~isRoot(p)
    /\ \/ o = "stat" /\ prev.op = "none"
       \/ o = "read" /\ prev.op = "stat" /\ prev.path = p
    /\ Call(o, p)

\* The last reference goes away: ~AutoCloseFD closes the anchor.
Destroy ==
    /\ pc = "idle" /\ anchorOpen
    /\ anchorOpen' = FALSE
    /\ UNCHANGED <<ent, op, path, pc, idx, cur, owned, leaked, opened, res, errno,
                   followed, stable, faulted, trackLastModified, mtime, seenMax>>
    /\ UNCHANGED <<fileVars, mkVars, listVars, pairVars>>

\* An external process creates, deletes or replaces one entry.
Mutate(d, n, v) ==
    /\ v \in EntryValues(d) /\ v # ent[d][n]
    /\ WellFormed([ent EXCEPT ![d][n] = v])
    /\ ent' = [ent EXCEPT ![d][n] = v]
    /\ stable' = (stable /\ pc = "idle")
    /\ UNCHANGED <<op, path, pc, idx, cur, owned, leaked, opened, res, errno,
                   followed, faulted, anchorOpen, trackLastModified, mtime, seenMax>>
    /\ UNCHANGED <<fileVars, mkVars, listVars, pairVars>>

\* ------------------------------------------------- UnixFileSourceAccessor
\* Threads sharing one accessor, the largest file size, the failed fstat calls
\* allowed in one behaviour.
NThreads == 2
MaxSize == 3
MaxFstatFailures == 1

\* std::array<unsigned char, 64 * 1024> buf, scaled to the file sizes above.
BufSize == 2

Threads == 1..NThreads

\* The thread of a caller that shares its accessor with nobody.
Caller == 1
Min(x, y) == IF x <= y THEN x ELSE y

StatRecord(size) == [state |-> "full", fileSize |-> size]
UnsetStat == [state |-> "unset", fileSize |-> 0]
PartialStat == [state |-> "partial", fileSize |-> 0]

\* A hand-written flag in place of call_once: a second caller runs the callable
\* while the first is still in it.
callOnceMayRunRacy(flag) == flag # "set"

\* read() in place of pread(): the bytes come from the shared file position,
\* which moves.
readAtCursor(pos, off, rd) == [from |-> pos, pos |-> pos + rd]

\* The loop without offset += rd.
advanceNot(off, rd) == off

\* The constructor forgetting the record it was given.
FileCtorDropsSt(st) == [statFlag |-> "clear", cachedStat |-> UnsetStat]

\* A flag set before the callable has run to its end: a failure is remembered.
callOnceAfterThrowSet(flag) == "set"

\* std::call_once(statFlag, f): f is run by a caller that finds the flag clear;
\* a caller returns from call_once once the flag is set.
callOnceMayRun(flag) == flag = "clear"
callOnceReturns(flag) == flag = "set"

\* UnixFileSourceAccessor(fd, rootPath, trackLastModified, st): with st (here a
\* full record; UnsetStat stands for nullptr) the constructor's call_once stores
\* *st and sets the flag.
FileCtor(st) ==
    IF st.state = "full" THEN [statFlag |-> "set", cachedStat |-> st]
    ELSE [statFlag |-> "clear", cachedStat |-> UnsetStat]

\* The callable throws: call_once passes the exception on and leaves the flag
\* as the caller found it, clear.
callOnceAfterThrow(flag) == flag

\* pread(fd, buf, n, offset): the bytes come from offset and the descriptor's
\* file position is left alone.
pread(pos, off, rd) == [from |-> off, pos |-> pos]

\* offset += rd
advance(off, rd) == off + rd

\* A public operation is called by thread t, which is in no other call: paths
\* other than the root are answered at once, the root goes through maybeLstat.
FileCall(t, o, r) ==
    /\ tpc[t] = "idle" /\ lpc[t] = "idle"
    /\ top' = [top EXCEPT ![t] = o]
    /\ troot' = [troot EXCEPT ![t] = r]
    /\ tpc' = [tpc EXCEPT ![t] = IF r THEN "once" ELSE "done"]
    /\ tres' = [tres EXCEPT ![t] =
                  IF r THEN "none" ELSE IF o = "stat" THEN "absent" ELSE "FileNotFound"]
    /\ UNCHANGED <<fsize, filePos, statFlag, cachedStat, prefetched, fstatCalls,
                   fstatFailed, returned, interrupted, left, offset, events>>
    /\ UNCHANGED <<dirVars, mkVars, listVars, pairVars>>

\* maybeLstat: call_once finds the flag clear and runs the callable, whose
\* fstat either fails (the exception leaves the flag clear) or starts to fill
\* cachedStat.
OnceFstat(t) ==
    /\ tpc[t] = "once" /\ callOnceMayRun(statFlag)
    /\ fstatCalls' = fstatCalls + 1
    /\ \E fail \in BOOLEAN :
        /\ fail => fstatFailed < MaxFstatFailures
        /\ IF fail
             THEN /\ fstatFailed' = fstatFailed + 1
                  /\ tpc' = [tpc EXCEPT ![t] = "done"]
                  /\ tres' = [tres EXCEPT ![t] = "SysError"]
                  /\ statFlag' = callOnceAfterThrow(statFlag)
                  /\ UNCHANGED cachedStat
           ELSE /\ statFlag' = "running" /\ cachedStat' = PartialStat
                /\ tpc' = [tpc EXCEPT ![t] = "fstat"]
                /\ UNCHANGED <<fstatFailed, tres>>
    /\ UNCHANGED <<fsize, filePos, prefetched, returned, interrupted, top, troot,
                   left, offset, events>>
    /\ UNCHANGED <<dirVars, mkVars, listVars, pairVars>>

\* The callable ends: cachedStat is complete and the flag is set.
OnceDone(t) ==
    /\ tpc[t] = "fstat"
    /\ cachedStat' = StatRecord(fsize)
    /\ statFlag' = "set"
    /\ tpc' = [tpc EXCEPT ![t] = "once"]
    /\ UNCHANGED <<fsize, filePos, prefetched, fstatCalls, fstatFailed, returned,
                   interrupted, top, troot, left, offset, events, tres>>
    /\ UNCHANGED <<dirVars, mkVars, listVars, pairVars>>

\* maybeLstat returns posixStatToAccessorStat(cachedStat); readFile then takes
\* the size from it and announces it.
OnceReturn(t) ==
    /\ tpc[t] = "once" /\ callOnceReturns(statFlag)
    /\ returned' = returned \cup {cachedStat}
    /\ IF top[t] = "stat"
         THEN /\ tpc' = [tpc EXCEPT ![t] = "done"]
              /\ tres' = [tres EXCEPT ![t] = "ok"]
              /\ UNCHANGED <<left, offset, events>>
       ELSE LET size == cachedStat.fileSize
            IN /\ left' = [left EXCEPT ![t] = size]
               /\ offset' = [offset EXCEPT ![t] = 0]
               /\ events' = [events EXCEPT ![t] = <<[e |-> "size", from |-> 0, n |-> size]>>]
               /\ tpc' = [tpc EXCEPT ![t] = IF size = 0 THEN "done" ELSE "check"]
               /\ tres' = [tres EXCEPT ![t] = IF size = 0 THEN "ok" ELSE "none"]
    /\ UNCHANGED <<fsize, filePos, statFlag, cachedStat, prefetched, fstatCalls,
                   fstatFailed, interrupted, top, troot>>
    /\ UNCHANGED <<dirVars, mkVars, listVars, pairVars>>

\* The loop without checkInterrupt().
CheckInterruptSkipped(t) ==
    /\ tpc[t] = "check"
    /\ tpc' = [tpc EXCEPT ![t] = "pread"]
    /\ UNCHANGED <<fsize, filePos, statFlag, cachedStat, prefetched, fstatCalls,
                   fstatFailed, returned, interrupted, top, troot, left, offset, events,
                   tres>>
    /\ UNCHANGED <<dirVars, mkVars, listVars, pairVars>>

\* while (left) { checkInterrupt(); ...
CheckInterrupt(t) ==
    /\ tpc[t] = "check"
    /\ IF interrupted
         THEN /\ tpc' = [tpc EXCEPT ![t] = "done"]
              /\ tres' = [tres EXCEPT ![t] = "Interrupted"]
       ELSE /\ tpc' = [tpc EXCEPT ![t] = "pread"]
            /\ UNCHANGED tres
    /\ UNCHANGED <<fsize, filePos, statFlag, cachedStat, prefetched, fstatCalls,
                   fstatFailed, returned, interrupted, top, troot, left, offset, events>>
    /\ UNCHANGED <<dirVars, mkVars, listVars, pairVars>>

\* What one pread of at most n bytes at off can give: an error, end of file,
\* or 1..n bytes of those the file holds beyond off.
PreadOutcomes(n, off) ==
    {[k |-> "EINTR", rd |-> 0], [k |-> "EIO", rd |-> 0]}
        \cup (IF fsize <= off THEN {[k |-> "eof", rd |-> 0]}
              ELSE {[k |-> "data", rd |-> m] : m \in 1..Min(n, fsize - off)})

\* ... pread; EINTR goes round the loop, another error or end of file throws,
\* bytes go to the sink and left and offset move on }
PreadChunk(t) ==
    /\ tpc[t] = "pread"
    /\ \E out \in PreadOutcomes(Min(left[t], BufSize), offset[t]) :
        LET got == pread(filePos, offset[t], out.rd) IN
        CASE out.k = "EINTR" ->
                /\ tpc' = [tpc EXCEPT ![t] = "check"]
                /\ UNCHANGED <<filePos, left, offset, events, tres>>
          [] out.k \in {"EIO", "eof"} ->
                /\ tpc' = [tpc EXCEPT ![t] = "done"]
                /\ tres' = [tres EXCEPT ![t] = "SysError"]
                /\ UNCHANGED <<filePos, left, offset, events>>
          [] OTHER ->
                /\ filePos' = got.pos
                /\ events' = [events EXCEPT ![t] =
                                Append(@, [e |-> "data", from |-> got.from, n |-> out.rd])]
                /\ left' = [left EXCEPT ![t] = @ - out.rd]
                /\ offset' = [offset EXCEPT ![t] = advance(@, out.rd)]
                /\ tpc' = [tpc EXCEPT ![t] = IF left[t] = out.rd THEN "done" ELSE "check"]
                /\ tres' = [tres EXCEPT ![t] = IF left[t] = out.rd THEN "ok" ELSE "none"]
    /\ UNCHANGED <<fsize, statFlag, cachedStat, prefetched, fstatCalls, fstatFailed,
                   returned, interrupted, top, troot>>
    /\ UNCHANGED <<dirVars, mkVars, listVars, pairVars>>

\* The caller of thread t has its result.
FileReturn(t) ==
    /\ tpc[t] = "done"
    /\ tpc' = [tpc EXCEPT ![t] = "idle"]
    /\ top' = [top EXCEPT ![t] = "none"]
    /\ troot' = [troot EXCEPT ![t] = TRUE]
    /\ tres' = [tres EXCEPT ![t] = "none"]
    /\ left' = [left EXCEPT ![t] = 0]
    /\ offset' = [offset EXCEPT ![t] = 0]
    /\ events' = [events EXCEPT ![t] = <<>>]
    /\ UNCHANGED <<fsize, filePos, statFlag, cachedStat, prefetched, fstatCalls,
                   fstatFailed, returned, interrupted>>
    /\ UNCHANGED <<dirVars, mkVars, listVars, pairVars>>

\* Another process truncates or extends the file.
Resize(n) ==
    /\ n # fsize
    /\ fsize' = n
    /\ UNCHANGED <<filePos, statFlag, cachedStat, prefetched, fstatCalls, fstatFailed,
                   returned, interrupted, tpc, top, troot, left, offset, events, tres>>
    /\ UNCHANGED <<dirVars, mkVars, listVars, pairVars>>

\* Interruption is requested.
Interrupt ==
    /\ ~interrupted
    /\ interrupted' = TRUE
    /\ UNCHANGED <<fsize, filePos, statFlag, cachedStat, prefetched, fstatCalls,
                   fstatFailed, returned, tpc, top, troot, left, offset, events, tres>>
    /\ UNCHANGED <<dirVars, mkVars, listVars, pairVars>>

\* A UnixFileSourceAccessor just constructed on a file of the given size, with
\* or without st.
FileInit(pre, size) ==
    /\ fsize = size /\ filePos = 0
    /\ prefetched = pre
    /\ statFlag = FileCtor(IF pre THEN StatRecord(size) ELSE UnsetStat).statFlag
    /\ cachedStat = FileCtor(IF pre THEN StatRecord(size) ELSE UnsetStat).cachedStat
    /\ fstatCalls = 0 /\ fstatFailed = 0 /\ returned = {}
    /\ interrupted = FALSE
    /\ tpc = [t \in Threads |-> "idle"]
    /\ top = [t \in Threads |-> "none"]
    /\ troot = [t \in Threads |-> TRUE]
    /\ left = [t \in Threads |-> 0]
    /\ offset = [t \in Threads |-> 0]
    /\ events = [t \in Threads |-> <<>>]
    /\ tres = [t \in Threads |-> "none"]

\* ---------------------------------------------------- makeFSSourceAccessor
\* A missing entry, a directory, a regular file, a character device, a regular
\* file without read permission, symlinks with the targets A and B.
RootEnts == {"missing", "tDirectory", "tRegular", "tChar", "noaccess", "lnkA", "lnkB"}

EntKind(e) ==
    CASE e \in {"lnkA", "lnkB"} -> "tSymlink"
      [] e = "noaccess" -> "tRegular"
      [] OTHER -> e

LinkTarget(e) == IF e = "lnkA" THEN "A" ELSE IF e = "lnkB" THEN "B" ELSE Nil

\* What the target of a symlink is: A is a directory, B does not exist.
LinkLeadsTo(e) == IF e = "lnkA" THEN "tDirectory" ELSE "missing"

MkRes(k, tgt, st) == [kind |-> k, target |-> tgt, st |-> st]

NoUse == [op |-> "none", res |-> "none"]

\* open() of rootPath without O_NOFOLLOW.
rootOpenFollows == FALSE

\* O_NOFOLLOW among the flags makeFSSourceAccessor opens rootPath with.
rootOpenNoFollow == TRUE

\* open(rootPath, O_RDONLY | O_CLOEXEC [| O_NOFOLLOW]) on the entry e.
OpenRoot(e, nofollow) ==
    LET t == IF EntKind(e) = "tSymlink" /\ ~nofollow THEN LinkLeadsTo(e) ELSE e IN
    IF t \in {"tDirectory", "tRegular", "tChar"} THEN [fd |-> t, errno |-> "none"]
    ELSE IF EntKind(t) = "tSymlink" THEN [fd |-> "none", errno |-> "ELOOP"]
    ELSE IF t = "noaccess" THEN [fd |-> "none", errno |-> "EACCES"]
    ELSE [fd |-> "none", errno |-> "ENOENT"]

\* makeDummySourceAccessor(): an empty MemorySourceAccessor
makeDummySourceAccessor == MkRes("MemorySourceAccessor", Nil, Nil)

\* root.empty() or rootPath.isRoot(): the shared accessor of "/"
MkStart(a) ==
    /\ mkPc = "start"
    /\ mkArg' = a
    /\ IF a \in {"empty", "slash"}
         THEN mkPc' = "done" /\ mkRes' = MkRes("rootFS", Nil, Nil)
       ELSE mkPc' = "open" /\ UNCHANGED mkRes
    /\ mkStable' = TRUE
    /\ UNCHANGED <<rootEnt, parentOk, mkFd, mkFaulted, mkFollowed, mkUse>>
    /\ UNCHANGED <<dirVars, fileVars, listVars, pairVars>>

\* open(rootPath, O_RDONLY | O_CLOEXEC | O_NOFOLLOW) and the !fd branches that
\* need no further system call.
MkOpen ==
    /\ mkPc = "open"
    /\ LET r == OpenRoot(rootEnt, rootOpenNoFollow) IN
       /\ mkFollowed' = (mkFollowed \/ (EntKind(rootEnt) = "tSymlink" /\ ~rootOpenNoFollow))
       /\ IF r.fd # "none"
            THEN mkFd' = r.fd /\ mkPc' = "fstat" /\ UNCHANGED mkRes
          ELSE IF r.errno = "ELOOP"
            THEN mkPc' = "openParent" /\ UNCHANGED <<mkFd, mkRes>>
          ELSE mkPc' = "done" /\ mkRes' = makeDummySourceAccessor /\ UNCHANGED mkFd
    /\ UNCHANGED <<mkArg, rootEnt, parentOk, mkStable, mkFaulted, mkUse>>
    /\ UNCHANGED <<dirVars, fileVars, listVars, pairVars>>

\* fstat(fd.get(), &st), then the choice of the accessor by st.st_mode; the
\* UnixFileSourceAccessor is constructed with &st.
MkFstat ==
    /\ mkPc = "fstat"
    /\ \E fault \in BOOLEAN :
        /\ mkFaulted' = (mkFaulted \/ fault)
        /\ IF ~fault /\ mkFd = "tRegular"
             THEN LET st == StatRecord(fsize)
                      c == FileCtor(st)
                  IN /\ mkRes' = MkRes("UnixFileSourceAccessor", Nil, st)
                     /\ statFlag' = c.statFlag /\ cachedStat' = c.cachedStat
                     /\ prefetched' = TRUE
           ELSE /\ mkRes' = IF fault THEN MkRes("SysError", Nil, Nil)
                            ELSE IF mkFd = "tDirectory"
                               THEN MkRes("UnixDirectorySourceAccessor", Nil, Nil)
                            ELSE MkRes("EmptySourceAccessor", Nil, Nil)
                /\ UNCHANGED <<statFlag, cachedStat, prefetched>>
    /\ mkPc' = "done"
    /\ UNCHANGED <<mkArg, rootEnt, parentOk, mkFd, mkStable, mkFollowed, mkUse>>
    /\ UNCHANGED <<fsize, filePos, fstatCalls, fstatFailed, returned, interrupted,
                   tpc, top, troot, left, offset, events, tres>>
    /\ UNCHANGED <<dirVars, listVars, pairVars>>

\* ELOOP: open(parent, O_RDONLY | O_DIRECTORY | O_CLOEXEC)
MkOpenParent ==
    /\ mkPc = "openParent"
    /\ IF parentOk THEN mkPc' = "fstatat" /\ UNCHANGED mkRes
       ELSE mkPc' = "done" /\ mkRes' = makeDummySourceAccessor
    /\ UNCHANGED <<mkArg, rootEnt, parentOk, mkFd, mkStable, mkFaulted, mkFollowed, mkUse>>
    /\ UNCHANGED <<dirVars, fileVars, listVars, pairVars>>

\* fstatat(parentFd.get(), name, &st, AT_SYMLINK_NOFOLLOW)
MkFstatat ==
    /\ mkPc = "fstatat"
    /\ \E fault \in BOOLEAN :
        /\ mkFaulted' = (mkFaulted \/ fault)
        /\ IF fault \/ rootEnt = "missing"
             THEN mkPc' = "done" /\ mkRes' = makeDummySourceAccessor
           ELSE mkPc' = "readlink" /\ UNCHANGED mkRes
    /\ UNCHANGED <<mkArg, rootEnt, parentOk, mkFd, mkStable, mkFollowed, mkUse>>
    /\ UNCHANGED <<dirVars, fileVars, listVars, pairVars>>

\* readLinkAt(parentFd.get(), name), which throws SysError, then the
\* SymlinkSourceAccessor holding the target.
MkReadLink ==
    /\ mkPc = "readlink"
    /\ \E fault \in BOOLEAN :
        /\ mkFaulted' = (mkFaulted \/ fault)
        /\ mkRes' = IF ~fault /\ EntKind(rootEnt) = "tSymlink"
                      THEN MkRes("SymlinkSourceAccessor", LinkTarget(rootEnt), "tSymlink")
                    ELSE MkRes("SysError", Nil, Nil)
    /\ mkPc' = "done"
    /\ UNCHANGED <<mkArg, rootEnt, parentOk, mkFd, mkStable, mkFollowed, mkUse>>
    /\ UNCHANGED <<dirVars, fileVars, listVars, pairVars>>

\* MemorySourceAccessor::maybeLstat of the root: the symlink createSymlink put
\* there, nothing in an empty accessor.
memoryLstat(acc) == IF acc.kind = "SymlinkSourceAccessor" THEN "tSymlink" ELSE "absent"

\* MemorySourceAccessor::readLink of the root.
memoryReadLink(acc) ==
    IF acc.kind = "SymlinkSourceAccessor" THEN acc.target ELSE "FileNotFound"

\* statusOf(root) or readLink(root) on the in-memory accessor returned.
MkMemUse(o) ==
    /\ mkPc = "done" /\ mkRes.kind \in {"SymlinkSourceAccessor", "MemorySourceAccessor"}
    /\ mkUse' = [op |-> o, res |-> IF o = "stat" THEN memoryLstat(mkRes)
                                   ELSE memoryReadLink(mkRes)]
    /\ UNCHANGED <<mkArg, mkPc, rootEnt, parentOk, mkFd, mkRes, mkStable, mkFaulted,
                   mkFollowed>>
    /\ UNCHANGED <<dirVars, fileVars, listVars, pairVars>>

\* statusOf(root) or read(root) by thread t on the UnixFileSourceAccessor
\* returned, step by step.
MkFileUse(t) ==
    /\ mkPc = "done" /\ mkRes.kind = "UnixFileSourceAccessor"
    /\ \/ \E o \in {"stat", "read"} : FileCall(t, o, TRUE)
       \/ OnceFstat(t)
       \/ OnceDone(t)
       \/ OnceReturn(t)
       \/ CheckInterrupt(t)
       \/ PreadChunk(t)
       \/ FileReturn(t)

\* Another process replaces, creates or removes the entry rootPath names.
MkReplace(v) ==
    /\ v # rootEnt
    /\ rootEnt' = v
    /\ mkStable' = (mkStable /\ mkPc = "start")
    /\ UNCHANGED <<mkArg, mkPc, parentOk, mkFd, mkRes, mkFaulted, mkFollowed, mkUse>>
    /\ UNCHANGED <<dirVars, fileVars, listVars, pairVars>>

\* Another process makes the parent directory unopenable, or openable again.
MkParent ==
    /\ parentOk' = ~parentOk
    /\ mkStable' = (mkStable /\ mkPc = "start")
    /\ UNCHANGED <<mkArg, mkPc, rootEnt, mkFd, mkRes, mkFaulted, mkFollowed, mkUse>>
    /\ UNCHANGED <<dirVars, fileVars, listVars, pairVars>>

MkInit(e, ok) ==
    /\ mkArg = "none" /\ mkPc = "start" /\ rootEnt = e /\ parentOk = ok
    /\ mkFd = "none" /\ mkRes = MkRes("none", Nil, Nil)
    /\ mkStable = TRUE /\ mkFaulted = FALSE /\ mkFollowed = FALSE /\ mkUse = NoUse


\* ------------------------ UnixDirectorySourceAccessor::readDirectory, in detail
\* Most dirents a directory stream holds.
MaxEntries == 3

ListNames == {".", "..", "a", "b"}

DTypes == {"DT_REG", "DT_DIR", "DT_LNK", "DT_CHR", "DT_BLK", "DT_FIFO", "DT_SOCK",
           "DT_UNKNOWN"}

Dirent(n, ty) == [name |-> n, type |-> ty]
NoDirent == Dirent("", "none")

\* The d_type values an entry of each name takes here: every one for a.
DTypesOf(n) ==
    IF n = "a" THEN DTypes ELSE IF n = "b" THEN {"DT_REG"} ELSE {"DT_DIR"}

Dirents == UNION {{Dirent(n, ty) : ty \in DTypesOf(n)} : n \in ListNames}

\* The streams readdir can yield: any entries in any order, "." and ".." among
\* them or not, no name twice.
Streams ==
    {s \in UNION {[1..k -> Dirents] : k \in 0..MaxEntries} :
        \A i, j \in 1..Len(s) : i # j => s[i].name # s[j].name}

\* The open file descriptions: 0 is that of the anchor descriptor.
Handles == 0..NThreads

\* fdopendir(fd.get()): the anchor's own open file description is iterated.
listHandleAnchor(t) == 0

\* name == "." alone is skipped.
isDot(name) == name = "."

\* The open file description the DIR of thread t iterates: that of the
\* descriptor openat(fd.get(), ".", ...) returned to this call.
listHandle(t) == t

\* name == "." || name == ".."
isDotOrDotDot(name) == name \in {".", ".."}

\* switch (dirent->d_type)
typeOfDirent(dt) ==
    CASE dt = "DT_REG" -> "tRegular"
      [] dt = "DT_DIR" -> "tDirectory"
      [] dt = "DT_LNK" -> "tSymlink"
      [] dt = "DT_CHR" -> "tChar"
      [] dt = "DT_BLK" -> "tBlock"
      [] dt = "DT_FIFO" -> "tFifo"
      [] dt = "DT_SOCK" -> "tSocket"
      [] OTHER -> Nil

\* entries.emplace(name, type): an existing key is left alone.
emplace(entries, name, type) ==
    IF \E e \in entries : e.name = name THEN entries
    ELSE entries \cup {[name |-> name, type |-> type]}

\* readDirectory(root) is called by thread t, which is in no other call.
ListCall(t) ==
    /\ lpc[t] = "idle" /\ tpc[t] = "idle"
    /\ lpc' = [lpc EXCEPT ![t] = "opendot"]
    /\ UNCHANGED <<stream, dpos, ldirent, lentries, lowned, lres, lsys>>
    /\ UNCHANGED <<dirVars, fileVars, mkVars, pairVars>>

\* The call of thread t ends with r: its local owners close what they hold.
ListFinish(t, r) ==
    /\ lpc' = [lpc EXCEPT ![t] = "done"]
    /\ lres' = [lres EXCEPT ![t] = r]
    /\ lowned' = [lowned EXCEPT ![t] = {}]

\* dirFdOwning = openat(fd.get(), ".", O_DIRECTORY | O_RDONLY | O_CLOEXEC): a new
\* open file description, at offset 0.
ListOpenDot(t) ==
    /\ lpc[t] = "opendot"
    /\ lsys' = [lsys EXCEPT ![t] = Append(@, "openat")]
    /\ \E fault \in BOOLEAN :
        IF fault
          THEN ListFinish(t, readDirectoryOpenError("EACCES", <<>>).kind) /\ UNCHANGED dpos
        ELSE /\ dpos' = [dpos EXCEPT ![t] = 0]
             /\ lowned' = [lowned EXCEPT ![t] = {"dirFdOwning"}]
             /\ lpc' = [lpc EXCEPT ![t] = "fdopendir"]
             /\ UNCHANGED lres
    /\ UNCHANGED <<stream, ldirent, lentries>>
    /\ UNCHANGED <<dirVars, fileVars, mkVars, pairVars>>

\* AutoCloseDir dir(fdopendir(dirFdOwning.get())); dirFdOwning.release()
ListFdopendir(t) ==
    /\ lpc[t] = "fdopendir"
    /\ lsys' = [lsys EXCEPT ![t] = Append(@, "fdopendir")]
    /\ \E fault \in BOOLEAN :
        IF fault THEN ListFinish(t, "SysError")
        ELSE /\ lowned' = [lowned EXCEPT ![t] = releaseAfterFdopendir(TRUE).owned]
             /\ lpc' = [lpc EXCEPT ![t] = "readdir"]
             /\ UNCHANGED lres
    /\ UNCHANGED <<stream, dpos, ldirent, lentries>>
    /\ UNCHANGED <<dirVars, fileVars, mkVars, pairVars>>

\* while (errno = 0, dirent = readdir(dir.get())): the next dirent of the open
\* file description; at the end, or on an error, the loop is left and entries
\* returned or SysError thrown.
ListReaddir(t) ==
    /\ lpc[t] = "readdir"
    /\ lsys' = [lsys EXCEPT ![t] = Append(@, "readdir")]
    /\ \E err \in BOOLEAN :
        LET h == listHandle(t) IN
        IF err THEN ListFinish(t, "SysError") /\ UNCHANGED <<dpos, ldirent>>
        ELSE IF dpos[h] >= Len(stream)
          THEN ListFinish(t, "ok") /\ UNCHANGED <<dpos, ldirent>>
        ELSE /\ ldirent' = [ldirent EXCEPT ![t] = stream[dpos[h] + 1]]
             /\ dpos' = [dpos EXCEPT ![h] = @ + 1]
             /\ lpc' = [lpc EXCEPT ![t] = "check"]
             /\ UNCHANGED <<lres, lowned>>
    /\ UNCHANGED <<stream, lentries>>
    /\ UNCHANGED <<dirVars, fileVars, mkVars, pairVars>>

\* The loop body: checkInterrupt(), the test for "." and "..", the switch on
\* d_type and entries.emplace(name, type).
ListEntry(t) ==
    /\ lpc[t] = "check"
    /\ IF interrupted
         THEN ListFinish(t, "Interrupted") /\ UNCHANGED lentries
       ELSE /\ lentries' = [lentries EXCEPT ![t] =
                              IF isDotOrDotDot(ldirent[t].name) THEN @
                              ELSE emplace(@, ldirent[t].name, typeOfDirent(ldirent[t].type))]
            /\ lpc' = [lpc EXCEPT ![t] = "readdir"]
            /\ UNCHANGED <<lres, lowned>>
    /\ UNCHANGED <<stream, dpos, ldirent, lsys>>
    /\ UNCHANGED <<dirVars, fileVars, mkVars, pairVars>>

\* The caller of thread t has its result.
ListReturn(t) ==
    /\ lpc[t] = "done"
    /\ lpc' = [lpc EXCEPT ![t] = "idle"]
    /\ lres' = [lres EXCEPT ![t] = "none"]
    /\ ldirent' = [ldirent EXCEPT ![t] = NoDirent]
    /\ lentries' = [lentries EXCEPT ![t] = {}]
    /\ lsys' = [lsys EXCEPT ![t] = <<>>]
    /\ dpos' = [dpos EXCEPT ![t] = 0]
    /\ UNCHANGED <<stream, lowned>>
    /\ UNCHANGED <<dirVars, fileVars, mkVars, pairVars>>

\* The directory the anchor refers to yields the stream s; nobody is listing.
ListInit(s) ==
    /\ stream = s
    /\ dpos = [h \in Handles |-> 0]
    /\ lpc = [t \in Threads |-> "idle"]
    /\ ldirent = [t \in Threads |-> NoDirent]
    /\ lentries = [t \in Threads |-> {}]
    /\ lowned = [t \in Threads |-> {}]
    /\ lres = [t \in Threads |-> "none"]
    /\ lsys = [t \in Threads |-> <<>>]


DirInit(track) ==
    /\ ent \in Trees
    /\ op = "none" /\ path = <<>> /\ pc = "idle" /\ res = NoRes
    /\ idx = 1 /\ cur = Anchor /\ owned = {} /\ leaked = 0 /\ opened = 0
    /\ errno = "none" /\ followed = FALSE /\ stable = TRUE /\ faulted = FALSE
    /\ anchorOpen = TRUE
    /\ trackLastModified = track /\ mtime = 0 /\ seenMax = 0
    /\ prev = NoPrev

DirStep ==
    \/ \E o \in Ops, p \in Paths : Call(o, p)
    \/ WalkStep
    \/ WalkFinal
    \/ FstatRoot
    \/ FstatatLast
    \/ ReadlinkatLast
    \/ OpenDot
    \/ Fdopendir
    \/ ReaddirAll
    \/ FileFstat
    \/ FileBody
    \/ Return

\* The Directory-Tree Accessor, one caller, an external process changing the tree.
Init ==
    DirInit(FALSE) /\ FileInit(FALSE, 0) /\ MkInit("missing", TRUE) /\ ListInit(<<>>)

Next ==
    \/ DirStep
    \/ Destroy
    \/ \E d \in InsideDirs, n \in Names, v \in Inodes \cup {Nil} : Mutate(d, n, v)

Spec == Init /\ [][Next]_vars

\* The accessor with tracking enabled, driven from one thread, the tree at rest.
InitTrack ==
    DirInit(TRUE) /\ FileInit(FALSE, 0) /\ MkInit("missing", TRUE) /\ ListInit(<<>>)

NextTrack ==
    \/ DirStep
    \/ Destroy

SpecTrack == InitTrack /\ [][NextTrack]_vars

\* The Single-File Accessor shared by several threads, the file changing size.
InitFile ==
    /\ DirInit(FALSE) /\ ent = [d \in InsideDirs |-> [n \in Names |-> Nil]]
    /\ \E pre \in BOOLEAN, size \in 0..MaxSize : FileInit(pre, size)
    /\ MkInit("missing", TRUE) /\ ListInit(<<>>)

NextFile ==
    \/ \E t \in Threads, o \in {"stat", "read"}, r \in BOOLEAN : FileCall(t, o, r)
    \/ \E t \in Threads : OnceFstat(t)
    \/ \E t \in Threads : OnceDone(t)
    \/ \E t \in Threads : OnceReturn(t)
    \/ \E t \in Threads : CheckInterrupt(t)
    \/ \E t \in Threads : PreadChunk(t)
    \/ \E t \in Threads : FileReturn(t)
    \/ \E n \in 0..MaxSize : Resize(n)
    \/ Interrupt

SpecFile == InitFile /\ [][NextFile]_vars


\* The entry point called on a path another process is changing.
InitMake ==
    /\ DirInit(FALSE) /\ ent = [d \in InsideDirs |-> [n \in Names |-> Nil]]
    /\ \E size \in 0..MaxSize : FileInit(FALSE, size)
    /\ \E e \in RootEnts, ok \in BOOLEAN : MkInit(e, ok)
    /\ ListInit(<<>>)

NextMake ==
    \/ \E a \in {"empty", "slash", "path"} : MkStart(a)
    \/ MkOpen
    \/ MkFstat
    \/ MkOpenParent
    \/ MkFstatat
    \/ MkReadLink
    \/ \E o \in {"stat", "link"} : MkMemUse(o)
    \/ MkFileUse(Caller)
    \/ \E n \in 0..MaxSize : Resize(n)
    \/ \E v \in RootEnts : MkReplace(v)
    \/ MkParent

SpecMake == InitMake /\ [][NextMake]_vars

\* readDirectory(root) called by several threads, the directory at rest.
InitList ==
    /\ DirInit(FALSE) /\ ent = [d \in InsideDirs |-> [n \in Names |-> Nil]]
    /\ FileInit(FALSE, 0) /\ MkInit("missing", TRUE)
    /\ \E s \in Streams : ListInit(s)

NextList ==
    \/ \E t \in Threads : ListCall(t)
    \/ \E t \in Threads : ListOpenDot(t)
    \/ \E t \in Threads : ListFdopendir(t)
    \/ \E t \in Threads : ListReaddir(t)
    \/ \E t \in Threads : ListEntry(t)
    \/ \E t \in Threads : ListReturn(t)

SpecList == InitList /\ [][NextList]_vars

\* One thread reading the file of a Single-File Accessor and listing the root of
\* a Directory-Tree Accessor, interruption requested at any moment.
InitCancel ==
    /\ DirInit(FALSE) /\ ent = [d \in InsideDirs |-> [n \in Names |-> Nil]]
    /\ \E size \in 0..MaxSize : FileInit(FALSE, size)
    /\ MkInit("missing", TRUE)
    /\ \E s \in Streams :
          /\ \A i \in 1..Len(s) : s[i].type \in {"DT_REG", "DT_DIR"}
          /\ ListInit(s)

\* The steps of a call in progress: the thread runs and its system calls return.
CancelProgress ==
    \/ OnceFstat(Caller)
    \/ OnceDone(Caller)
    \/ OnceReturn(Caller)
    \/ CheckInterrupt(Caller)
    \/ PreadChunk(Caller)
    \/ ListOpenDot(Caller)
    \/ ListFdopendir(Caller)
    \/ ListReaddir(Caller)
    \/ ListEntry(Caller)

NextCancel ==
    \/ FileCall(Caller, "read", TRUE)
    \/ ListCall(Caller)
    \/ CancelProgress
    \/ FileReturn(Caller)
    \/ ListReturn(Caller)
    \/ Interrupt

SpecCancel == InitCancel /\ [][NextCancel]_vars /\ WF_vars(CancelProgress)

\* statusOf(p) followed by read(p), the tree at rest.
NextPair ==
    \/ \E o \in {"stat", "read"}, p \in Paths : PairCall(o, p)
    \/ WalkStep
    \/ WalkFinal
    \/ FstatatLast
    \/ FileFstat
    \/ FileBody
    \/ PairReturn

SpecPair == Init /\ [][NextPair]_vars

\* ------------------------------------------------------------------ claims
\* The inode the first k components of p lead to from the anchor through real
\* directories only, no symlink followed; Nil when there is none.
RECURSIVE Reach(_, _)
Reach(p, k) ==
    IF k = 0 THEN Anchor
    ELSE LET d == Reach(p, k - 1) IN
         IF d = Nil \/ Kind(d) # "tDirectory" THEN Nil ELSE Child(d, p[k])

SymlinkBeforeLast(p) ==
    \E i \in 1..(Len(p) - 1) : Reach(p, i) # Nil /\ Kind(Reach(p, i)) = "tSymlink"

ParentIsRealDir(p) ==
    Len(p) > 0 /\ Reach(p, Len(p) - 1) # Nil /\ Kind(Reach(p, Len(p) - 1)) = "tDirectory"

\* The call ran on a tree nobody changed and no system call of it failed for
\* lack of permission or an I/O error.
Undisturbed == pc = "done" /\ stable /\ ~faulted

\* C1: on a tree at rest, every operation on a path with a symlink at a
\* component before the last fails with SymlinkNotAllowed, whatever the
\* symlink points to (here an existing, accessible directory).
C1_SymlinkBeforeLastRejected ==
    (Undisturbed /\ SymlinkBeforeLast(path)) => res.kind = "SymlinkNotAllowed"

C1_Witness ==
    /\ Undisturbed /\ op = "read" /\ Len(path) = 2
    /\ Child(Anchor, path[1]) = "L" /\ Child(Target("L"), path[2]) # Nil
    /\ res.kind = "SymlinkNotAllowed"

\* C2: whatever an external process does between the system calls of an
\* operation, no system call of it follows a symlink, no descriptor it holds
\* refers to an inode outside the root, and a successful result is that of an
\* inode reached through real directories.
C2_NoSymlinkFollowed ==
    /\ ~followed
    /\ cur \notin OutsideInodes
    /\ (res.kind = "ok" => res.ino \notin OutsideInodes)

\* The parent was opened, then swapped for a symlink, and the call succeeded on
\* the directory it had opened.
C2_Witness ==
    /\ pc = "done" /\ ~stable /\ op = "stat" /\ res.kind = "ok"
    /\ SymlinkBeforeLast(path) /\ res.ino = "F"

C6_MissingLast ==
    (Undisturbed /\ ParentIsRealDir(path) /\ Reach(path, Len(path)) = Nil) =>
        /\ op = "stat" => res.kind = "absent"
        /\ op = "read" => res.kind = "FileNotFound"

C6_Witness ==
    /\ Undisturbed /\ ParentIsRealDir(path) /\ Reach(path, Len(path)) = Nil
    /\ op = "read" /\ Len(path) = 2 /\ res.kind = "FileNotFound"

\* C7 as stated: statusOf returns absent only when a system call reported that
\* the entry does not exist.
C7_AbsentOnlyWhenMissing ==
    (pc = "done" /\ op = "stat" /\ res.kind = "absent") => errno = "ENOENT"

\* C8: with tracking enabled and one calling thread, getLastModified() is the
\* largest st_mtime among the entries statted or read so far, and never
\* decreases.
C8_LastModifiedIsMaxSeen ==
    /\ getLastModified = seenMax
    /\ [][getLastModified' = seenMax' /\ mtime' >= mtime]_vars

\* A newer file was read, then an older directory statted.
C8_Witness ==
    /\ trackLastModified /\ pc = "done" /\ op = "stat" /\ res.kind = "ok"
    /\ res.ino = "D" /\ mtime = MTime("F")


\* The bytes the first k events of ev have passed to the sink.
RECURSIVE Delivered(_, _)
Delivered(ev, k) ==
    IF k <= 1 THEN 0 ELSE Delivered(ev, k - 1) + ev[k].n

ReadingRoot(t) == top[t] = "read" /\ troot[t] /\ Len(events[t]) > 0

\* C3 as stated: once a caller has returned from statusOf(root), exactly one
\* status query has been issued, or none when the record was prefetched.
C3_ExactlyOneQuery ==
    (\E t \in Threads : tpc[t] = "done" /\ top[t] = "stat" /\ troot[t]) =>
        fstatCalls = (IF prefetched THEN 0 ELSE 1)

\* C3 amended: at most one status query is in progress or has succeeded, none
\* is issued when the record was prefetched, a query is issued again only after
\* a failed one, every record returned is complete, and all are the same.
C3_OneSuccessfulQuery ==
    /\ fstatCalls - fstatFailed <= 1
    /\ prefetched => fstatCalls = 0
    /\ (returned # {} /\ ~prefetched) => fstatCalls = fstatFailed + 1
    /\ \A r \in returned : r.state = "full" /\ r = cachedStat
    /\ Cardinality(returned) <= 1

\* Both threads have their record, after a failed first query, and the file has
\* changed size since the record was taken.
C3_Witness ==
    /\ \A t \in Threads : tpc[t] = "done" /\ top[t] = "stat" /\ troot[t] /\ tres[t] = "ok"
    /\ ~prefetched /\ fstatFailed = 1 /\ fsize # cachedStat.fileSize

\* C9: a read of the root announces the size once and first, passes the bytes
\* on in increasing offset order with no gap or overlap, never more than
\* announced, and returns successfully only with all of them passed on.
C9_SizeThenContiguousBytes ==
    \A t \in Threads : ReadingRoot(t) =>
        LET ev == events[t] IN
        /\ ev[1].e = "size"
        /\ \A k \in 2..Len(ev) :
              ev[k].e = "data" /\ ev[k].n > 0 /\ ev[k].from = Delivered(ev, k - 1)
        /\ Delivered(ev, Len(ev)) <= ev[1].n
        /\ (tpc[t] = "done" /\ tres[t] = "ok") => Delivered(ev, Len(ev)) = ev[1].n
        /\ (Delivered(ev, Len(ev)) < ev[1].n /\ tpc[t] = "done") => tres[t] # "ok"

\* A file larger than the buffer was read in several chunks.
C9_Witness ==
    \E t \in Threads :
        /\ ReadingRoot(t) /\ tpc[t] = "done" /\ tres[t] = "ok"
        /\ events[t][1].n = MaxSize /\ Len(events[t]) >= 3

\* C10: readers of one accessor do not share a read position: the descriptor's
\* file position never moves, each reader's bytes come from its own offset, and
\* a reader that returns successfully has the bytes from 0 to the announced size.
C10_ReadersIndependent ==
    /\ filePos = 0
    /\ \A t \in Threads : ReadingRoot(t) =>
          LET ev == events[t] IN
          /\ offset[t] = Delivered(ev, Len(ev))
          /\ left[t] = ev[1].n - offset[t]
          /\ Len(ev) >= 2 => ev[Len(ev)].from + ev[Len(ev)].n = offset[t]
          /\ (tpc[t] = "done" /\ tres[t] = "ok") => offset[t] = ev[1].n

\* One reader has finished while another is in the middle of the same file.
C10_Witness ==
    \E t, u \in Threads :
        /\ t # u /\ ReadingRoot(t) /\ ReadingRoot(u)
        /\ tpc[t] = "done" /\ tres[t] = "ok" /\ events[t][1].n >= 2
        /\ tpc[u] = "pread" /\ offset[u] = 1

\* C4 as stated: the entry point returns an accessor and raises no error.
C4_ConstructionNeverFails ==
    mkPc = "done" => mkRes.kind # "SysError"

\* The accessor makeFSSourceAccessor chooses for a descriptor of kind k.
VariantOf(k) ==
    CASE k = "tDirectory" -> "UnixDirectorySourceAccessor"
      [] k = "tRegular" -> "UnixFileSourceAccessor"
      [] OTHER -> "EmptySourceAccessor"

\* C11: when rootPath was opened and its descriptor statted, the accessor is the
\* one for the kind of that descriptor, whatever rootPath names by then; and a
\* UnixFileSourceAccessor so made answers statusOf(root) with the record taken
\* at construction and issues no status query, whatever the file's size is now.
C11_VariantByDescriptorKind ==
    /\ (mkPc = "done" /\ mkFd # "none" /\ mkRes.kind # "SysError") =>
            mkRes.kind = VariantOf(mkFd)
    /\ mkRes.kind = "UnixFileSourceAccessor" =>
            /\ fstatCalls = 0
            /\ cachedStat = mkRes.st
            /\ returned \subseteq {mkRes.st}
            /\ \A t \in Threads : ReadingRoot(t) => events[t][1].n = mkRes.st.fileSize

\* The file was replaced by a directory and extended after it was opened; a
\* read has passed on the bytes the record of construction announces.
C11_Witness ==
    /\ mkRes.kind = "UnixFileSourceAccessor" /\ rootEnt = "tDirectory"
    /\ mkRes.st.fileSize > 0 /\ fsize > mkRes.st.fileSize /\ returned = {mkRes.st}
    /\ tpc[Caller] = "done" /\ top[Caller] = "read" /\ tres[Caller] = "ok"

\* C12: makeFSSourceAccessor never opens a descriptor through the symlink
\* rootPath names; when rootPath is a symlink, its parent can be opened, nothing
\* changes meanwhile and no system call fails, the accessor returned holds the
\* link's target; and statusOf(root) on such an accessor reports a symlink and
\* readLink(root) the target.
C12_SymlinkRoot ==
    /\ ~mkFollowed
    /\ (mkPc = "done" /\ mkArg = "path" /\ mkStable /\ ~mkFaulted /\ parentOk
            /\ EntKind(rootEnt) = "tSymlink") =>
            /\ mkRes.kind = "SymlinkSourceAccessor"
            /\ mkRes.target = LinkTarget(rootEnt)
            /\ mkFd = "none"
    /\ mkRes.kind = "SymlinkSourceAccessor" =>
            /\ mkUse.op = "stat" => mkUse.res = "tSymlink"
            /\ mkUse.op = "link" => mkUse.res = mkRes.target

\* The root is a symlink to a directory; readLink(root) gave its target.
C12_Witness ==
    /\ mkPc = "done" /\ mkArg = "path" /\ mkStable /\ ~mkFaulted /\ parentOk
    /\ rootEnt = "lnkA" /\ mkRes.kind = "SymlinkSourceAccessor"
    /\ mkUse = [op |-> "link", res |-> "A"]

\* C13: when an operation has returned, with a result or a failure, no local
\* owner still holds a descriptor, none is left open without an owner, and the
\* anchor is open; the anchor is closed only by the destructor, once, with no
\* operation in progress, and is not opened again.  An operation on a path
\* directly below the root opens no descriptor for statusOf and readLink, and
\* only that of the path itself for read and listDirectory.
C13_DescriptorsReleased ==
    /\ [](/\ pc \in {"done", "idle"} => owned = {} /\ leaked = 0
          /\ pc # "idle" => anchorOpen
          /\ (pc = "done" /\ Len(path) = 1) =>
                  opened <= (IF op \in {"stat", "link"} THEN 0 ELSE 1))
    /\ [][anchorOpen' # anchorOpen =>
            anchorOpen /\ ~anchorOpen' /\ pc = "idle" /\ pc' = "idle"]_vars

\* fdopendir failed on a directory two levels down: both descriptors the call
\* opened are closed.
C13_Witness ==
    /\ pc = "done" /\ op = "list" /\ res.kind = "SysError" /\ errno = "ENOMEM"
    /\ opened = 2 /\ owned = {} /\ leaked = 0 /\ anchorOpen

\* C14 as stated: on a tree at rest, read of the root, of a symlink in a real
\* directory or of a directory fails with NotARegularFile.
C14_NotARegularFile ==
    (/\ Undisturbed /\ op = "read"
     /\ \/ isRoot(path)
        \/ /\ ParentIsRealDir(path) /\ Reach(path, Len(path)) # Nil
           /\ Kind(Reach(path, Len(path))) # "tRegular") =>
        res.kind = "NotARegularFile"

\* The kind each d_type value stands for; DT_UNKNOWN stands for none.
DTypeKinds ==
    {<<"DT_REG", "tRegular">>, <<"DT_DIR", "tDirectory">>, <<"DT_LNK", "tSymlink">>,
     <<"DT_CHR", "tChar">>, <<"DT_BLK", "tBlock">>, <<"DT_FIFO", "tFifo">>,
     <<"DT_SOCK", "tSocket">>}

\* What a listing of the stream is to return.
ExpectedEntries ==
    {[name |-> stream[i].name,
      type |-> IF \E k \in DTypeKinds : k[1] = stream[i].type
                 THEN (CHOOSE k \in DTypeKinds : k[1] = stream[i].type)[2]
               ELSE Nil] :
        i \in {j \in 1..Len(stream) : stream[j].name \notin {".", ".."}}}

Count(q, x) == Cardinality({i \in 1..Len(q) : q[i] = x})

\* C15: a listing never holds "." or ".."; one that returns holds exactly the
\* other names of the directory, each with the kind its dirent carries, or none
\* for DT_UNKNOWN; and the call made one openat, one fdopendir, one readdir per
\* dirent and one more, and no other system call.
C15_ListingIsDirents ==
    \A t \in Threads :
        /\ \A e \in lentries[t] : e.name \notin {".", ".."}
        /\ \A i \in 1..Len(lsys[t]) : lsys[t][i] \in {"openat", "fdopendir", "readdir"}
        /\ (lpc[t] = "done" /\ lres[t] = "ok") =>
              /\ lentries[t] = ExpectedEntries
              /\ Count(lsys[t], "openat") = 1 /\ Count(lsys[t], "fdopendir") = 1
              /\ Count(lsys[t], "readdir") = Len(stream) + 1

\* A directory yielding ".", an entry of unknown type and ".." has been listed.
C15_Witness ==
    \E t \in Threads :
        /\ lpc[t] = "done" /\ lres[t] = "ok" /\ Len(stream) = 3
        /\ stream[1].name = "." /\ stream[3].name = ".."
        /\ stream[2] = Dirent("a", "DT_UNKNOWN")
        /\ lentries[t] = {[name |-> "a", type |-> Nil]}

\* C16: with the directory at rest, the anchor descriptor's directory offset
\* never moves; the offset of the descriptor a call opened is the number of
\* dirents that call has been handed, whatever the other calls do; and every
\* call that returns has every name of the directory.
C16_FreshHandlePerCall ==
    /\ dpos[0] = 0
    /\ \A t \in Threads :
        /\ lpc[t] \in {"readdir", "check"} =>
              dpos[t] = Count(lsys[t], "readdir") /\ lowned[t] = {"dir"}
        /\ lpc[t] = "check" => ldirent[t] = stream[dpos[t]]
        /\ (lpc[t] = "done" /\ lres[t] = "ok") =>
              {e.name : e \in lentries[t]} =
                  {stream[i].name : i \in 1..Len(stream)} \ {".", ".."}

\* One call has returned the whole directory while another is at its first entry.
C16_Witness ==
    \E t, u \in Threads :
        /\ t # u /\ Len(stream) = MaxEntries
        /\ lpc[t] = "done" /\ lres[t] = "ok" /\ Cardinality(lentries[t]) >= 2
        /\ lpc[u] = "check" /\ dpos[u] = 1

InProgress(t) == tpc[t] \notin {"idle", "done"} \/ lpc[t] \notin {"idle", "done"}

\* C17: a read or a listing that comes to its per-chunk or per-entry check with
\* interruption requested ends there with Interrupted, passing nothing more to
\* the sink and adding no entry; pread is issued only right after a check that
\* found no interruption, also after EINTR; a call that returns successfully
\* has passed on every byte announced, or holds every entry; a call that has
\* ended holds no descriptor; and once interruption is requested the call in
\* progress ends.
C17_InterruptedAtBoundary ==
    /\ [](\A t \in Threads :
            /\ (ReadingRoot(t) /\ tpc[t] = "done" /\ tres[t] = "ok") =>
                    Delivered(events[t], Len(events[t])) = events[t][1].n
            /\ (lpc[t] = "done" /\ lres[t] = "ok") => lentries[t] = ExpectedEntries
            /\ lpc[t] = "done" => lowned[t] = {})
    /\ [][\A t \in Threads :
            /\ (tpc[t] = "check" /\ interrupted /\ tpc'[t] # tpc[t]) =>
                    /\ tpc'[t] = "done" /\ tres'[t] = "Interrupted"
                    /\ events'[t] = events[t]
            /\ (lpc[t] = "check" /\ interrupted /\ lpc'[t] # lpc[t]) =>
                    /\ lpc'[t] = "done" /\ lres'[t] = "Interrupted"
                    /\ lentries'[t] = lentries[t] /\ lowned'[t] = {}
            /\ (tpc'[t] = "pread" /\ tpc[t] # "pread") => tpc[t] = "check" /\ ~interrupted
            /\ (tpc[t] = "pread" /\ tpc'[t] # "pread") => tpc'[t] \in {"check", "done"}
            /\ (tres'[t] = "Interrupted" /\ tres[t] # "Interrupted") => interrupted
            /\ (lres'[t] = "Interrupted" /\ lres[t] # "Interrupted") => interrupted]_vars
    /\ (interrupted /\ InProgress(Caller)) ~> ~InProgress(Caller)

\* A read interrupted after its first chunk, with bytes still to come.
C17_Witness ==
    /\ interrupted /\ tpc[Caller] = "done" /\ tres[Caller] = "Interrupted"
    /\ Len(events[Caller]) = 2 /\ left[Caller] > 0

\* Some component of p before the last is missing from a real directory that
\* every component before it leads to.
MissingIntermediate(p) ==
    \E k \in 1..(Len(p) - 1) :
        /\ Reach(p, k - 1) # Nil /\ Kind(Reach(p, k - 1)) = "tDirectory"
        /\ Reach(p, k) = Nil

\* C18: on a tree at rest and with no failing system call, readLink fails with
\* NotASymlink naming the path for the root and for a final component in a real
\* directory that is no symlink, with FileNotFound when a component before the
\* last is missing, and returns the link for a final component that is a
\* symlink; whenever it returns, what it read is a symlink.
C18_ReadLinkOutcomes ==
    /\ (pc = "done" /\ op = "link" /\ res.kind = "ok") => Kind(res.ino) = "tSymlink"
    /\ (Undisturbed /\ op = "link") =>
        /\ isRoot(path) => res = Res("NotASymlink", path, Nil)
        /\ MissingIntermediate(path) => res.kind = "FileNotFound"
        /\ (ParentIsRealDir(path) /\ Reach(path, Len(path)) # Nil) =>
              IF Kind(Reach(path, Len(path))) = "tSymlink"
                THEN res = Res("ok", path, Reach(path, Len(path)))
              ELSE res = Res("NotASymlink", path, Nil)
        /\ res.kind = "ok" =>
              ParentIsRealDir(path) /\ Kind(Reach(path, Len(path))) = "tSymlink"

\* readLink of a regular file two directories down.
C18_Witness ==
    /\ Undisturbed /\ op = "link" /\ Len(path) = 3 /\ ParentIsRealDir(path)
    /\ Reach(path, 3) = "F" /\ res = Res("NotASymlink", path, Nil)

\* C19 as stated: on a tree at rest, with no failing system call, read of a
\* path fails with FileNotFound exactly when statusOf of that path returned
\* absent.
C19_SameClassification ==
    (/\ Undisturbed /\ op = "read"
     /\ prev.op = "stat" /\ prev.path = path /\ prev.clean) =>
        (res.kind = "FileNotFound" <=> prev.kind = "absent")

\* C20: a status query that fails raises SysError to its caller and leaves the
\* flag clear and the record unset, so that a caller waiting in maybeLstat can
\* issue the query again and none returns without a query that succeeded; once
\* the flag is set no query is issued and the record does not change.
C20_FailureNotCached ==
    /\ [](/\ statFlag = "clear" => cachedStat = UnsetStat
          /\ \A t \in Threads :
                (tpc[t] = "once" /\ statFlag = "clear") => ENABLED OnceFstat(t)
          /\ \A t \in Threads :
                (tpc[t] = "done" /\ troot[t] /\ tres[t] \in {"ok", "Interrupted"}) =>
                    statFlag = "set")
    /\ [][/\ fstatFailed' > fstatFailed =>
                /\ statFlag' = "clear" /\ cachedStat' = UnsetStat
                /\ \E t \in Threads :
                      tpc[t] = "once" /\ tpc'[t] = "done" /\ tres'[t] = "SysError"
          /\ fstatCalls' > fstatCalls => statFlag = "clear"
          /\ statFlag = "set" =>
                /\ statFlag' = "set" /\ cachedStat' = cachedStat
                /\ fstatCalls' = fstatCalls]_vars

\* statusOf(root) failed in one thread; read(root) in the other then issued the
\* query again and read the file.
C20_Witness ==
    \E t, u \in Threads :
        /\ tpc[t] = "done" /\ top[t] = "stat" /\ tres[t] = "SysError"
        /\ tpc[u] = "done" /\ top[u] = "read" /\ troot[u] /\ tres[u] = "ok"
        /\ fstatCalls = 2 /\ fstatFailed = 1 /\ events[u][1].n > 0

====
